---- MODULE Spec2Model ----
(***************************************************************************)
(* A model of the XTTS local provisioning scripts:                         *)
(*   xtts_local_setup.py  - command runner, downloader, state store,       *)
(*                          compatibility patcher, setup orchestrator      *)
(*   ejecutar_xtts.py     - the launcher supervising the web server child  *)
(* Every specification below shares the variables; a specification leaves  *)
(* the variables of the other components at their initial values.          *)
(***************************************************************************)
EXTENDS Integers, Sequences, FiniteSets, TLC

VARIABLES
    config_state,   \* the global config_state dict of xtts_local_setup.py
    clock,          \* what time.time() returns
    cmd_last,       \* the last run_command call: its inputs and what it did
    platform,       \* sys.platform, "posix" or "win32"
    dl_pc,          \* download_file: the strategy about to be tried
    dl_attempts,    \* download_file: the strategies invoked so far, with what each left
    dl_ret,         \* download_file: "none" while running, then "True"/"False"/"raised"
    dl_file,        \* the destination file: [exists, size]
    cfg_file,       \* the content of xtts_config.json (CONFIG_FILE)
    load_ret,       \* load_config_state: "none", then "returned" or "raised"
    shim,           \* xtts-webui/utils/compatibility.py: "absent", "stale" or "code"
    sites,          \* per site-packages directory, its gpt_trainer.py: [exists, content]
    tf_has_lw,      \* whether the loaded transformers module has the attribute LogitsWarper
    patch_env,      \* the conditions apply_compatibility_patch meets: [mkdir, shim, trainer, dyn]
    patch_count,    \* applications of apply_compatibility_patch so far
    patch_ret,      \* how the last application ended: "none", "returned" or "raised"
    l_pc,           \* launcher: the phase main() of ejecutar_xtts.py is in
    l_exit,         \* launcher: <<>> while it runs, then <<its exit status>>
    l_config,       \* whether xtts-webui/model/config.json exists
    l_files,        \* the files present in the project directory
    l_patch,        \* launcher: how the compatibility patch went
    l_verified,     \* launcher: what the model check found: "none", "present", "absent"
    l_script,       \* launcher: <<>> or <<the script handed to Popen>>
    spawn_count,    \* launcher: child processes spawned in this run
    child,          \* the child process: "none", "running" or "exited"
    child_rc,       \* the child's exit code once it has exited
    child_signals,  \* the signals the launcher has sent to the child, in order
    h_pc,           \* signal_handler: "none", "waiting" (in process.wait) or "done"
    h_timer,        \* seconds process.wait(timeout=5) has been waiting
    h_child_running,\* whether the child was running when SIGINT arrived
    h_exit_at,      \* <<>> or <<the second of the wait at which the child exited>>
    pc,             \* orchestrator: the stage main() of xtts_local_setup.py is at
    args,           \* orchestrator: the parsed flags [skip, force, no_venv]
    exit_code,      \* orchestrator: <<>> while it runs, then <<its exit code>>
    runs,           \* orchestrator runs started so far
    faults,         \* failures the environment has produced so far
    trace,          \* the stages this run has entered
    dl_calls,       \* the URLs download_file was called with in this run
    start_file,     \* the state file as it was when this run started
    python_exe,     \* main's python_exe: "sys" (sys.executable) or "venv"
    venv_ret,       \* what create_virtual_environment returned: "dir" or "None"
    launcher_path,  \* what create_launcher_script returned: "none", "base", "temp"
    dep_i,          \* the dependency an individual-install loop is at
    dr_ret,         \* what download_resources returned: "none", "True", "False"
    fatal,          \* why this run ended early: "none", or the fatal condition
    xtts_dir,       \* xtts-webui/: "absent", "bare" (no application) or "app"
    model_dir,      \* xtts-webui/model/: "absent", "empty", "other_json", "config"
    venv,           \* venv/: "absent", "usable", "no_pip", "no_python"
    req_file,       \* whether xtts-webui/requirements.txt exists
    zips,           \* temp/model.zip and temp/voices.zip: [model, voices]
    mem,            \* overlapping runs: the config_state each process holds
    ppc             \* overlapping runs: "idle", "start", "loaded" or "saved"

cmdVars == <<cmd_last>>
dlVars == <<platform, dl_pc, dl_attempts, dl_ret, dl_file>>
storeVars == <<cfg_file, load_ret>>
patchVars == <<shim, sites, tf_has_lw, patch_env, patch_count, patch_ret>>
launchVars == <<l_pc, l_exit, l_config, l_files, l_patch, l_verified, l_script,
                spawn_count, child, child_rc, child_signals, h_pc, h_timer,
                h_child_running, h_exit_at>>
orchVars == <<pc, args, exit_code, runs, trace, dl_calls, start_file, python_exe,
              venv_ret, launcher_path, dep_i, dr_ret, fatal, mem, ppc>>
fsVars == <<xtts_dir, model_dir, venv, req_file, zips>>
nonLaunchVars == <<config_state, clock, cmdVars, dlVars, storeVars, patchVars,
                   orchVars, faults, fsVars>>
vars == <<config_state, clock, cmd_last, platform, dl_pc, dl_attempts, dl_ret, dl_file,
          cfg_file, load_ret, shim, sites, tf_has_lw, patch_env, patch_count, patch_ret,
          l_pc, l_exit, l_config, l_files, l_patch, l_verified, l_script,
          spawn_count, child, child_rc, child_signals, h_pc, h_timer,
          h_child_running, h_exit_at,
          pc, args, exit_code, runs, faults, trace, dl_calls, start_file, python_exe,
          venv_ret, launcher_path, dep_i, dr_ret, fatal,
          xtts_dir, model_dir, venv, req_file, zips, mem, ppc>>

----------------------------------------------------------------------------
(* Bounds of the model *)

MaxLog == 2        \* error_log entries a command-runner behaviour may collect
MaxClock == 3      \* clock readings a command-runner behaviour may take
MaxApply == 3      \* applications of the compatibility patcher in a row
MaxContent == 2    \* pieces of text in a modelled gpt_trainer.py
NumSites == 2      \* site-packages directories site.getsitepackages() lists
MaxRuns == 2       \* orchestrator runs in a row
MaxFaults == 2     \* failures the environment produces in a behaviour

----------------------------------------------------------------------------
(* Provisioning state: config_state, lines 71-78 *)

DefaultState ==
    [installed |-> FALSE, models_downloaded |-> FALSE, patched |-> FALSE,
     last_run |-> <<>>, python_exe |-> <<>>, error_log |-> <<>>, extra |-> {}]

----------------------------------------------------------------------------
(* Command runner: run_command, lines 102-157 *)

\* What the external process does: exits 0, exits non-zero, or cannot be
\* started at all (FileNotFoundError / OSError out of subprocess.run).
ProcOutcomes == {"exit0", "exit_nz", "oserror"}

Commands == {"wget", "curl", "pip"}

\* A plausible slip: a non-zero exit is handled as an error whatever check is.
RaisesOnAnyFailure(check, outcome) == outcome = "exit_nz"

\* subprocess.run(..., check=check) raises CalledProcessError only when check
\* is set; with check=False a non-zero exit comes back as a normal result.
RaisesCalledProcessError(check, outcome) == check /\ outcome = "exit_nz"

\* The error_log entry of lines 138-145.
ErrorEntry(now, cmd, stderr) ==
    [kind |-> "command", timestamp |-> now, command |-> cmd,
     error |-> "CalledProcessError",
     stderr |-> IF stderr = "" THEN "None" ELSE stderr]

\* run_command as a function of the process outcome: what it returns
\* ("exit0"/"exit_nz": a result object with that return code, "None",
\* or "raise": the exception leaves run_command), the error_log afterwards
\* and whether logger.error was called.
\* A plausible slip: the new entry replaces the log instead of extending it.
RunCommandKeepingLast(cmd, check, outcome, stderr, log, now) ==
    IF outcome = "oserror"
    THEN [ret |-> "raise", log |-> log, logged |-> FALSE]
    ELSE IF RaisesCalledProcessError(check, outcome)
    THEN [ret |-> "None", log |-> <<ErrorEntry(now, cmd, stderr)>>, logged |-> TRUE]
    ELSE [ret |-> outcome, log |-> log, logged |-> FALSE]

RunCommand(cmd, check, outcome, stderr, log, now) ==
    IF outcome = "oserror"
    THEN [ret |-> "raise", log |-> log, logged |-> FALSE]
    ELSE IF RaisesCalledProcessError(check, outcome)
    THEN [ret |-> "None", log |-> Append(log, ErrorEntry(now, cmd, stderr)),
          logged |-> TRUE]
    ELSE [ret |-> outcome, log |-> log, logged |-> FALSE]

NoCmd == [cmd |-> "none", check |-> FALSE, outcome |-> "none", ret |-> "none",
          logged |-> FALSE, before |-> 0]

\* One call of run_command on the global state.
CmdCall ==
    /\ Len(config_state.error_log) < MaxLog
    /\ clock < MaxClock
    /\ \E cmd \in Commands, check \in BOOLEAN, outcome \in ProcOutcomes,
          stderr \in {"", "msg"} :
          LET r == RunCommand(cmd, check, outcome, stderr,
                              config_state.error_log, clock)
          IN /\ config_state' = [config_state EXCEPT !.error_log = r.log]
             /\ cmd_last' = [cmd |-> cmd, check |-> check, outcome |-> outcome,
                             ret |-> r.ret, logged |-> r.logged,
                             before |-> Len(config_state.error_log)]
    /\ clock' = clock + 1
    /\ UNCHANGED <<dlVars, storeVars, patchVars, launchVars, orchVars, faults, fsVars>>

----------------------------------------------------------------------------
(* Downloader: download_file, lines 543-628 *)

MinSize == 1000

Platforms == {"posix", "win32"}

\* Sizes around the threshold of lines 560, 581, 615.
Sizes == {0, MinSize, MinSize + 1}

NoFile == [exists |-> FALSE, size |-> 0]
Files == {NoFile} \cup {[exists |-> TRUE, size |-> s] : s \in Sizes}

\* A plausible slip: a file of exactly the threshold size counts as downloaded.
CliSuccessAtThreshold(ret, file) ==
    /\ ret = "exit0"
    /\ file.exists
    /\ file.size >= MinSize

\* The check of lines 556-561 and 577-582 on run_command's result.
CliSuccess(ret, file) ==
    /\ ret = "exit0"
    /\ file.exists
    /\ file.size > MinSize

\* The check of line 615 once the streaming loop has ended without exception.
RequestsSuccess(outcome, file) ==
    /\ outcome = "ok"
    /\ file.exists
    /\ file.size > MinSize

\* A plausible slip: only the HTTP status error is handled.
CaughtHttpOnly(exc) == exc = "http_error"

\* except Exception (lines 566, 587, 623) catches every error a transport raises.
Caught(exc) == exc \in {"raise", "import_error", "http_error", "open_error", "io_error"}

\* The strategy after a failed one; the order of lines 548, 569, 590.
NextStrategy(s) == IF s = "wget" THEN "curl" ELSE "requests"

\* What a CLI fetcher may leave at the destination: nothing new when it could
\* not be started, otherwise the file as it was or a file it wrote.
CliFiles(outcome, file) == IF outcome = "oserror" THEN {file} ELSE Files

\* Method 1 and method 2: wget, then curl, through run_command(check=False).
TryCli(s) ==
    /\ dl_pc = s
    /\ platform # "win32"
    /\ \E outcome \in ProcOutcomes :
         \E f \in CliFiles(outcome, dl_file) :
           LET r == RunCommand(s, FALSE, outcome, "", config_state.error_log, clock)
               att == [name |-> s, outcome |-> outcome, file |-> f]
           IN /\ config_state' = [config_state EXCEPT !.error_log = r.log]
              /\ dl_file' = f
              /\ dl_attempts' = Append(dl_attempts, att)
              /\ IF r.ret # "raise" /\ CliSuccess(r.ret, f)
                 THEN dl_pc' = "returned" /\ dl_ret' = "True"
                 ELSE IF r.ret = "raise" /\ ~Caught(r.ret)
                 THEN dl_pc' = "returned" /\ dl_ret' = "raised"
                 ELSE dl_pc' = NextStrategy(s) /\ dl_ret' = dl_ret
    /\ UNCHANGED <<clock, cmd_last, platform, storeVars, patchVars, launchVars, orchVars, fsVars>>

\* On win32 the two CLI fetchers are skipped (lines 549, 570).
SkipCli(s) ==
    /\ dl_pc = s
    /\ platform = "win32"
    /\ dl_pc' = NextStrategy(s)
    /\ UNCHANGED <<config_state, clock, cmd_last, platform, dl_attempts, dl_ret, dl_file,
                   storeVars, patchVars, launchVars, orchVars, faults, fsVars>>

RequestsOutcomes == {"import_error", "http_error", "open_error", "io_error", "ok"}

\* What the streaming fetch leaves: the file is untouched until open(.., "wb")
\* succeeds (line 602); after that it holds whatever was written.
RequestsFiles(outcome, file) ==
    IF outcome \in {"import_error", "http_error", "open_error"}
    THEN {file}
    ELSE {[exists |-> TRUE, size |-> s] : s \in Sizes}

\* Method 3: the requests-based streaming fetch, lines 590-625.
TryRequests ==
    /\ dl_pc = "requests"
    /\ \E outcome \in RequestsOutcomes :
         \E f \in RequestsFiles(outcome, dl_file) :
           LET att == [name |-> "requests", outcome |-> outcome, file |-> f]
           IN /\ dl_file' = f
              /\ dl_attempts' = Append(dl_attempts, att)
              /\ dl_pc' = "returned"
              /\ dl_ret' = IF outcome # "ok" /\ ~Caught(outcome) THEN "raised"
                           ELSE IF RequestsSuccess(outcome, f) THEN "True"
                           ELSE "False"
    /\ UNCHANGED <<config_state, clock, cmd_last, platform, storeVars, patchVars, launchVars,
                   orchVars, fsVars>>

----------------------------------------------------------------------------
(* Provisioning state store: load_config_state, lines 89-99 *)

Fields == {"installed", "models_downloaded", "patched", "last_run", "python_exe",
           "error_log"}

\* Keys a state file may hold: the fields and a key the program does not know.
FileKeys == Fields \cup {"a"}

\* The values a hand-written state file gives to the keys it holds.
FileVal ==
    [installed |-> TRUE, models_downloaded |-> TRUE, patched |-> TRUE,
     last_run |-> <<0>>, python_exe |-> <<"venv">>,
     error_log |-> <<ErrorEntry(0, "pip", "msg")>>]

\* The content of the state file, by what json.load and dict.update make of it:
\*   "missing"  the file does not exist
\*   "garbage"  json.load raises
\*   "scalar"   a JSON number, null, boolean or non-empty string: update raises
\*   "map"      a JSON object holding `keys` with the values of `val`
\*   "list"     a JSON array: its leading [key, value] pairs are `keys`/`val`;
\*              `raises` when an element that is no pair follows them
MissingFile == [kind |-> "missing", keys |-> {}, val |-> FileVal, raises |-> FALSE]
GarbageFile == [kind |-> "garbage", keys |-> {}, val |-> FileVal, raises |-> FALSE]
ScalarFile == [kind |-> "scalar", keys |-> {}, val |-> FileVal, raises |-> TRUE]
MapFile(keys, val) == [kind |-> "map", keys |-> keys, val |-> val, raises |-> FALSE]
ListFile(keys, raises) == [kind |-> "list", keys |-> keys, val |-> FileVal, raises |-> raises]

\* dict.update with the pairs `keys` of `val` (line 96).
UpdateState(state, keys, val) ==
    [installed |-> IF "installed" \in keys THEN val.installed ELSE state.installed,
     models_downloaded |-> IF "models_downloaded" \in keys THEN val.models_downloaded
                           ELSE state.models_downloaded,
     patched |-> IF "patched" \in keys THEN val.patched ELSE state.patched,
     last_run |-> IF "last_run" \in keys THEN val.last_run ELSE state.last_run,
     python_exe |-> IF "python_exe" \in keys THEN val.python_exe ELSE state.python_exe,
     error_log |-> IF "error_log" \in keys THEN val.error_log ELSE state.error_log,
     extra |-> state.extra \cup (keys \ Fields)]

\* except Exception (line 98) around json.load and update.
LoadCaught(exc) == exc \in {"JSONDecodeError", "TypeError"}

\* load_config_state: the state afterwards and how the call ended.
\* dict.update applies the pairs it has read before it meets a bad element.
LoadConfigState(state, file) ==
    LET exc == IF file.kind = "garbage" THEN "JSONDecodeError"
               ELSE IF file.raises THEN "TypeError"
               ELSE "none"
        st == IF file.kind \in {"map", "list"}
              THEN UpdateState(state, file.keys, file.val)
              ELSE state
    IN [state |-> st,
        ret |-> IF exc = "none" \/ LoadCaught(exc) THEN "returned" ELSE "raised",
        warned |-> exc # "none"]

\* The state files load_config_state is tried on.
LoadFiles ==
    {MissingFile, GarbageFile, ScalarFile}
    \cup {MapFile(k, FileVal) : k \in SUBSET FileKeys}
    \cup {ListFile(k, r) : k \in SUBSET FileKeys, r \in BOOLEAN}

\* One call of load_config_state in a fresh process.
LoadCall ==
    /\ load_ret = "none"
    /\ LET r == LoadConfigState(config_state, cfg_file)
       IN /\ config_state' = r.state
          /\ load_ret' = r.ret
    /\ UNCHANGED <<clock, cmd_last, dlVars, cfg_file, patchVars, launchVars, orchVars, faults,
                   fsVars>>

----------------------------------------------------------------------------
(* Compatibility patcher: apply_compatibility_patch, lines 715-829 *)

\* The text of gpt_trainer.py as a sequence of pieces:
\*   "FTI"    the text "from transformers import"
\*   "ALIAS"  the text " LogitsProcessor as LogitsWarper,"
\*   "LW"     any other text holding the word LogitsWarper
\* (a file without either piece is the empty sequence).
Pieces == {"FTI", "LW"}

RECURSIVE SeqsUpTo(_, _)
SeqsUpTo(S, n) ==
    IF n = 0 THEN {<<>>}
    ELSE LET shorter == SeqsUpTo(S, n - 1)
         IN shorter \cup {Append(q, x) : q \in shorter, x \in S}

Contents == SeqsUpTo(Pieces, MaxContent)

\* "LogitsWarper" in content (line 787).
HasLogitsWarper(content) ==
    \E i \in 1..Len(content) : content[i] \in {"LW", "ALIAS"}

\* content.replace("from transformers import",
\*                 "from transformers import LogitsProcessor as LogitsWarper,")
\* (lines 788-791): every occurrence is rewritten, and the rewritten text
\* still starts with "from transformers import".
RECURSIVE ReplaceImport(_)
ReplaceImport(content) ==
    IF content = <<>> THEN <<>>
    ELSE (IF Head(content) = "FTI" THEN <<"FTI", "ALIAS">> ELSE <<Head(content)>>)
         \o ReplaceImport(Tail(content))

\* A plausible slip: the rewrite without the check of line 787.
PatchedContentUnguarded(content) == ReplaceImport(content)

\* The text written back by lines 787-795 (unchanged when already patched).
PatchedContent(content) ==
    IF ~HasLogitsWarper(content) THEN ReplaceImport(content) ELSE content

NoSite == [exists |-> FALSE, content |-> <<>>]
SiteFiles == {NoSite} \cup {[exists |-> TRUE, content |-> c] : c \in Contents}

\* The first site-packages directory holding gpt_trainer.py (lines 769-779, 805).
FirstSite(ss) ==
    IF \E i \in 1..Len(ss) : ss[i].exists
    THEN CHOOSE i \in 1..Len(ss) :
            /\ ss[i].exists
            /\ \A j \in 1..(i - 1) : ~ss[j].exists
    ELSE 0

\* The conditions an application meets:
\*   mkdir    "ok" | "error"                 os.makedirs(utils_dir) (line 721)
\*   shim     "ok" | "alt" | "fail"          open(compat_file, "w") works, or only
\*                                           the temporary-file copy, or neither
\*   trainer  "ok" | "read_error" | "write_error" | "site_error"
\*   dyn      "ok" | "import_error"          import transformers (line 818)
PatchEnvs ==
    [mkdir : {"ok", "error"}, shim : {"ok", "alt", "fail"},
     trainer : {"ok", "read_error", "write_error", "site_error"},
     dyn : {"ok", "import_error"}]

\* The shim file after lines 734-759.
WriteShim(old, how) == IF how \in {"ok", "alt"} THEN "code" ELSE old

\* gpt_trainer.py in the site-packages directories after lines 763-814.
PatchSites(ss, how) ==
    LET i == FirstSite(ss)
    IN IF i = 0 \/ how \in {"site_error", "read_error"} THEN ss
       ELSE IF how = "write_error" THEN ss
       ELSE [ss EXCEPT ![i].content = PatchedContent(ss[i].content)]

\* apply_compatibility_patch: the files, the module attribute and the patched
\* flag afterwards. os.makedirs (line 721) is outside every try: its error
\* leaves the function before anything is written.
\* A plausible slip: patched is recorded only when a layer took effect.
ApplyCompatibilityPatchWhenEffective(sh, ss, attr, flag, env) ==
    IF env.mkdir = "error"
    THEN [shim |-> sh, sites |-> ss, attr |-> attr, patched |-> flag, ret |-> "raised"]
    ELSE [shim |-> WriteShim(sh, env.shim),
          sites |-> PatchSites(ss, env.trainer),
          attr |-> attr \/ env.dyn = "ok",
          patched |-> flag \/ env.shim \in {"ok", "alt"} \/ env.dyn = "ok"
                          \/ PatchSites(ss, env.trainer) # ss,
          ret |-> "returned"]

ApplyCompatibilityPatch(sh, ss, attr, flag, env) ==
    IF env.mkdir = "error"
    THEN [shim |-> sh, sites |-> ss, attr |-> attr, patched |-> flag, ret |-> "raised"]
    ELSE [shim |-> WriteShim(sh, env.shim),
          sites |-> PatchSites(ss, env.trainer),
          attr |-> attr \/ env.dyn = "ok",
          patched |-> TRUE,
          ret |-> "returned"]

\* One application, under the conditions of this behaviour.
ApplyPatch ==
    /\ patch_count < MaxApply
    /\ LET r == ApplyCompatibilityPatch(shim, sites, tf_has_lw,
                                        config_state.patched, patch_env)
       IN /\ shim' = r.shim
          /\ sites' = r.sites
          /\ tf_has_lw' = r.attr
          /\ config_state' = [config_state EXCEPT !.patched = r.patched]
          /\ patch_ret' = r.ret
    /\ patch_count' = patch_count + 1
    /\ UNCHANGED <<clock, cmdVars, dlVars, storeVars, patch_env, launchVars, orchVars, faults,
                   fsVars>>

----------------------------------------------------------------------------
(* Launcher: ejecutar_xtts.py *)

GracePeriod == 5

\* script_candidates, ejecutar_xtts.py lines 112-115.
ScriptCandidates ==
    <<"app.py", "webui.py", "main.py", "server.py", "run.py",
      "gradio_app.py", "xtts_app.py", "xtts_demo.py">>

\* The files a project directory may hold in the model.
ProjectFiles == {"app.py", "webui.py", "xtts_demo.py", "tool.py", "zeta.py", "README.md"}

IsPython(f) == f \in {"app.py", "webui.py", "main.py", "server.py", "run.py",
                      "gradio_app.py", "xtts_app.py", "xtts_demo.py", "tool.py", "zeta.py"}

\* A plausible slip: any Python file of the directory, without priority.
SelectScriptAnyPython(files) == {f \in files : IsPython(f)}

\* The scripts main() may end up with (lines 106-130): app.py when present,
\* else the first candidate present, else any .py file os.listdir lists
\* first (its order is arbitrary), else none.
SelectScript(files) ==
    IF "app.py" \in files THEN {"app.py"}
    ELSE IF \E i \in 1..Len(ScriptCandidates) : ScriptCandidates[i] \in files
    THEN {ScriptCandidates[CHOOSE i \in 1..Len(ScriptCandidates) :
                             /\ ScriptCandidates[i] \in files
                             /\ \A j \in 1..(i - 1) : ScriptCandidates[j] \notin files]}
    ELSE {f \in files : IsPython(f)}

\* A plausible slip: the model check never fails.
ModelConfigAssumed(present) == TRUE

\* os.path.exists(model_config), line 91.
ModelConfigExists(present) == present

\* A plausible slip: the wait gives up after the first second.
WaitTimedOutEarly(timer, c) == c = "running" /\ timer >= 1

\* process.wait(timeout=5) raises TimeoutExpired (lines 35-37).
WaitTimedOut(timer, c) == c = "running" /\ timer = GracePeriod

LRunning == l_pc \in {"Idle", "EnvironmentPrepared", "PatchApplied", "ModelVerified",
                      "ChildRunning", "ErrorWait"}

\* Popen.terminate / Popen.kill deliver nothing to a child that has exited.
Signalled(sigs, c, sig) == IF c = "running" THEN Append(sigs, sig) ELSE sigs

\* os.chdir(project_dir), lines 62-69; an error goes to except Exception
\* (lines 167-173), which exits with status 1.
LChdir ==
    /\ UNCHANGED nonLaunchVars
    /\ l_pc = "Idle" /\ h_pc = "none"
    /\ \E ok \in BOOLEAN :
         IF ok THEN l_pc' = "EnvironmentPrepared" /\ l_exit' = l_exit
         ELSE l_pc' = "Failed" /\ l_exit' = <<1>>
    /\ UNCHANGED <<l_config, l_files, l_patch, l_verified, l_script, spawn_count, child,
                   child_rc, child_signals, h_pc, h_timer, h_child_running, h_exit_at>>

\* import compatibility, else apply_compatibility_patch(), lines 71-87 and 42-53.
\* Only ImportError is handled at line 80; any other error of the import
\* reaches except Exception and ends the launcher.
LPatch ==
    /\ UNCHANGED nonLaunchVars
    /\ l_pc = "EnvironmentPrepared" /\ h_pc = "none"
    /\ \E imp \in {"ok", "ImportError", "OtherError"}, dyn \in BOOLEAN :
         IF imp = "ok"
         THEN l_patch' = "shim" /\ l_pc' = "PatchApplied" /\ l_exit' = l_exit
         ELSE IF imp = "ImportError"
         THEN /\ l_patch' = IF dyn THEN "dynamic" ELSE "failed"
              /\ l_pc' = "PatchApplied" /\ l_exit' = l_exit
         ELSE l_patch' = "crashed" /\ l_pc' = "Failed" /\ l_exit' = <<1>>
    /\ UNCHANGED <<l_config, l_files, l_verified, l_script, spawn_count, child,
                   child_rc, child_signals, h_pc, h_timer, h_child_running, h_exit_at>>

\* The model check, lines 89-94: sys.exit(1) when config.json is absent.
LVerifyModel ==
    /\ UNCHANGED nonLaunchVars
    /\ l_pc = "PatchApplied" /\ h_pc = "none"
    /\ l_verified' = IF l_config THEN "present" ELSE "absent"
    /\ IF ModelConfigExists(l_config)
       THEN l_pc' = "ModelVerified" /\ l_exit' = l_exit
       ELSE l_pc' = "Failed" /\ l_exit' = <<1>>
    /\ UNCHANGED <<l_config, l_files, l_patch, l_script, spawn_count, child,
                   child_rc, child_signals, h_pc, h_timer, h_child_running, h_exit_at>>

\* Script selection and subprocess.Popen, lines 106-143. No Python file:
\* sys.exit(1) (line 130); Popen failing: except Exception, status 1.
LSpawn ==
    /\ UNCHANGED nonLaunchVars
    /\ l_pc = "ModelVerified" /\ h_pc = "none"
    /\ IF SelectScript(l_files) = {}
       THEN /\ l_pc' = "Failed" /\ l_exit' = <<1>>
            /\ UNCHANGED <<l_script, spawn_count, child>>
       ELSE \E f \in SelectScript(l_files), started \in BOOLEAN :
              /\ l_script' = <<f>>
              /\ IF started
                 THEN /\ child' = "running"
                      /\ spawn_count' = spawn_count + 1
                      /\ l_pc' = "ChildRunning" /\ l_exit' = l_exit
                 ELSE /\ l_pc' = "Failed" /\ l_exit' = <<1>>
                      /\ UNCHANGED <<spawn_count, child>>
    /\ UNCHANGED <<l_config, l_files, l_patch, l_verified, child_rc, child_signals,
                   h_pc, h_timer, h_child_running, h_exit_at>>

\* The child ends, by itself or because of a signal it was sent.
ChildExit ==
    /\ UNCHANGED nonLaunchVars
    /\ child = "running"
    /\ \E rc \in {0, 1} : child_rc' = rc
    /\ child' = "exited"
    /\ h_exit_at' = IF h_pc = "waiting" THEN <<h_timer>> ELSE h_exit_at
    /\ UNCHANGED <<l_pc, l_exit, l_config, l_files, l_patch, l_verified, l_script,
                   spawn_count, child_signals, h_pc, h_timer, h_child_running>>

\* A plausible slip: a child that ended with an error is started again.
ChildPhaseRetry(rc) == IF rc = 0 THEN "ChildExitedClean" ELSE "ModelVerified"

\* return_code = process.wait() and the test of line 156.
ChildPhase(rc) == IF rc = 0 THEN "ChildExitedClean" ELSE "ChildExitedError"

\* A plausible slip: the child's code becomes the launcher's status.
LauncherStatusPropagated(rc) == rc

\* return_code is only logged (lines 155-159); main returns None and the
\* module ends after main() (lines 175-176): status 0.
LauncherStatus(rc) == 0

\* The output loop ends and process.wait() returns, lines 145-159; main
\* returns and the launcher ends with status 0 whatever the child's code.
LChildDone ==
    /\ UNCHANGED nonLaunchVars
    /\ l_pc = "ChildRunning" /\ h_pc = "none"
    /\ child = "exited"
    /\ l_pc' = ChildPhase(child_rc)
    /\ l_exit' = <<LauncherStatus(child_rc)>>
    /\ UNCHANGED <<l_config, l_files, l_patch, l_verified, l_script, spawn_count, child,
                   child_rc, child_signals, h_pc, h_timer, h_child_running, h_exit_at>>

\* An error while relaying the output: except Exception terminates the
\* child and waits for it, lines 167-172.
LLoopError ==
    /\ UNCHANGED nonLaunchVars
    /\ l_pc = "ChildRunning" /\ h_pc = "none"
    /\ child_signals' = Signalled(child_signals, child, "TERM")
    /\ l_pc' = "ErrorWait"
    /\ UNCHANGED <<l_exit, l_config, l_files, l_patch, l_verified, l_script, spawn_count,
                   child, child_rc, h_pc, h_timer, h_child_running, h_exit_at>>

\* process.wait() of line 172 returns; sys.exit(1), line 173.
LErrorExit ==
    /\ UNCHANGED nonLaunchVars
    /\ l_pc = "ErrorWait" /\ h_pc = "none"
    /\ child = "exited"
    /\ l_pc' = "Failed" /\ l_exit' = <<1>>
    /\ UNCHANGED <<l_config, l_files, l_patch, l_verified, l_script, spawn_count, child,
                   child_rc, child_signals, h_pc, h_timer, h_child_running, h_exit_at>>

\* SIGINT: signal_handler, lines 29-40, up to process.wait(timeout=5).
\* Without a process it goes straight to sys.exit(0).
Interrupt ==
    /\ UNCHANGED nonLaunchVars
    /\ LRunning /\ h_pc = "none"
    /\ h_child_running' = (child = "running")
    /\ IF child # "none"
       THEN /\ child_signals' = Signalled(child_signals, child, "TERM")
            /\ h_pc' = "waiting"
            /\ UNCHANGED <<l_pc, l_exit>>
       ELSE /\ h_pc' = "done"
            /\ l_pc' = "Interrupted" /\ l_exit' = <<0>>
            /\ UNCHANGED child_signals
    /\ UNCHANGED <<l_config, l_files, l_patch, l_verified, l_script, spawn_count, child,
                   child_rc, h_timer, h_exit_at>>

\* A second of the grace period passes with the child still running.
HTick ==
    /\ UNCHANGED nonLaunchVars
    /\ h_pc = "waiting" /\ child = "running"
    /\ h_timer < GracePeriod
    /\ h_timer' = h_timer + 1
    /\ UNCHANGED <<l_pc, l_exit, l_config, l_files, l_patch, l_verified, l_script,
                   spawn_count, child, child_rc, child_signals, h_pc, h_child_running,
                   h_exit_at>>

\* process.wait returns in time: lines 35-36, then sys.exit(0).
HWaitDone ==
    /\ UNCHANGED nonLaunchVars
    /\ h_pc = "waiting" /\ child = "exited"
    /\ h_pc' = "done"
    /\ l_pc' = "Interrupted" /\ l_exit' = <<0>>
    /\ UNCHANGED <<l_config, l_files, l_patch, l_verified, l_script, spawn_count, child,
                   child_rc, child_signals, h_timer, h_child_running, h_exit_at>>

\* TimeoutExpired: process.kill(), lines 37-39, then sys.exit(0) without
\* waiting for the child.
HTimeout ==
    /\ UNCHANGED nonLaunchVars
    /\ h_pc = "waiting"
    /\ WaitTimedOut(h_timer, child)
    /\ child_signals' = Signalled(child_signals, child, "KILL")
    /\ h_pc' = "done"
    /\ l_pc' = "Interrupted" /\ l_exit' = <<0>>
    /\ UNCHANGED <<l_config, l_files, l_patch, l_verified, l_script, spawn_count, child,
                   child_rc, h_timer, h_child_running, h_exit_at>>

----------------------------------------------------------------------------
(* Orchestrator: main and its stages, xtts_local_setup.py *)

NumCritical == 6
NumProject == 6

\* --skip-download, --force-download, --no-venv (lines 1010-1020).
ArgSets == [skip : BOOLEAN, force : BOOLEAN, no_venv : BOOLEAN]

\* What no stage of the orchestrator touches.
orchFrame == <<cmd_last, load_ret, patch_env, patch_count, patch_ret, launchVars,
               mem, ppc>>
runVars == <<args, runs, start_file>>
dlState == <<dl_pc, dl_attempts, dl_ret, dl_file>>
patchFiles == <<shim, sites, tf_has_lw>>

\* The environment produces at most MaxFaults failures in a behaviour.
Cost(outcome) == IF outcome \in {"ok", "exit0"} THEN 0 ELSE 1
Fault(n) == faults + n <= MaxFaults /\ faults' = faults + n

\* The ways a run ends before line 1095: sys.exit(1) in check_python_version
\* (line 165), setup_environment (187), create_virtual_environment (361),
\* clone_repository (333), the handler of line 1099, Ctrl+C (line 1096).
FatalCauses == {"python_version", "permission", "venv", "clone", "exception", "interrupt"}

\* A plausible slip: Ctrl+C ends the run with status 0, as the launcher does.
ReturnCodeCleanInterrupt(cause) == IF cause \in {"none", "interrupt"} THEN 0 ELSE 1

\* The status of the process: return 0 (line 1095), return 1 (1098, 1113),
\* sys.exit(1), or an exception nobody catches.
ReturnCode(cause) == IF cause = "none" THEN 0 ELSE 1

\* The process ends: sys.exit, or main returning to sys.exit (line 1117).
Exit(cause) ==
    /\ pc' = "done"
    /\ exit_code' = <<ReturnCode(cause)>>
    /\ fatal' = cause
Goto(stage) == pc' = stage /\ exit_code' = exit_code /\ fatal' = fatal

\* run_command(..., check=True) on the global state: its result, and the
\* reading of time.time() an error_log entry takes.
Run(cmd, outcome) ==
    RunCommand(cmd, TRUE, outcome, "msg", config_state.error_log, clock)
Ran(r) ==
    /\ config_state' = [config_state EXCEPT !.error_log = r.log]
    /\ clock' = IF r.logged THEN clock + 1 ELSE clock

\* main, lines 1005-1037: a fresh process parses its flags and loads the state.
MainStart ==
    /\ pc \in {"idle", "done"}
    /\ runs < MaxRuns
    /\ \E a \in ArgSets : args' = a
    /\ runs' = runs + 1
    /\ config_state' = LoadConfigState(DefaultState, cfg_file).state
    /\ start_file' = cfg_file
    /\ clock' = clock + 1
    /\ pc' = "check_python"
    /\ exit_code' = <<>>
    /\ trace' = {}
    /\ dl_calls' = <<>>
    /\ python_exe' = "sys"
    /\ venv_ret' = "None"
    /\ launcher_path' = "none"
    /\ dep_i' = 0
    /\ dr_ret' = "none"
    /\ fatal' = "none"
    /\ dl_pc' = "idle"
    /\ dl_attempts' = <<>>
    /\ dl_ret' = "none"
    /\ dl_file' = NoFile
    /\ tf_has_lw' = FALSE
    /\ UNCHANGED <<faults, platform, cfg_file, shim, sites, fsVars, orchFrame>>

\* check_python_version, lines 160-166.
CheckPythonVersion ==
    /\ pc = "check_python"
    /\ \E v \in {"ok", "old"} :
         /\ Fault(Cost(v))
         /\ IF v = "old" THEN Exit("python_version") ELSE Goto("setup_env")
    /\ UNCHANGED <<config_state, clock, platform, dlState, cfg_file, patchFiles, runVars,
                   trace, dl_calls, python_exe, venv_ret, launcher_path, dep_i, dr_ret,
                   fsVars, orchFrame>>

\* Creating MODEL_DIR = xtts-webui/model creates xtts-webui/ too (line 175).
MadeDirs(made) ==
    /\ xtts_dir' = IF made /\ xtts_dir = "absent" THEN "bare" ELSE xtts_dir
    /\ model_dir' = IF made /\ model_dir = "absent" THEN "empty" ELSE model_dir

\* A plausible slip: every failure of the directory setup ends the run.
SetupFatalAny(how) == how # "ok"

\* except PermissionError (line 184) exits; except Exception (line 188) retries
\* each directory and returns.
SetupFatal(how) == how = "permission"

\* setup_environment, lines 169-198.
SetupEnvironment ==
    /\ pc = "setup_env"
    /\ \E how \in {"ok", "permission", "oserror"}, made \in BOOLEAN :
         /\ how = "ok" => made
         /\ Fault(Cost(how))
         /\ MadeDirs(made)
         /\ IF SetupFatal(how) THEN Exit(how) ELSE Goto("venv")
    /\ UNCHANGED <<config_state, clock, platform, dlState, cfg_file, patchFiles, runVars,
                   trace, dl_calls, python_exe, venv_ret, launcher_path, dep_i, dr_ret,
                   venv, req_file, zips, orchFrame>>

\* main, lines 1048-1050: --no-venv.
UseSystemPython ==
    /\ pc = "venv"
    /\ args.no_venv
    /\ python_exe' = "sys"
    /\ Goto("sysdeps")
    /\ UNCHANGED <<config_state, clock, platform, dlState, cfg_file, patchFiles, runVars,
                   faults, trace, dl_calls, venv_ret, launcher_path, dep_i, dr_ret,
                   fsVars, orchFrame>>

\* What a venv command that did not succeed leaves behind: nothing, a
\* directory without interpreter, or an interpreter without pip.
PartialVenvs == {"absent", "no_python", "no_pip"}

\* python_exe.exists() (lines 348, 413).
VenvPythonExists(v) == v \in {"usable", "no_pip"}

\* create_virtual_environment, lines 336-399.
CreateVirtualEnvironment ==
    /\ pc = "venv"
    /\ ~args.no_venv
    /\ IF venv = "usable"
       THEN /\ venv_ret' = "dir"
            /\ Goto("get_python")
            /\ UNCHANGED <<config_state, clock, faults, venv>>
       ELSE \E rm \in {"ok", "error"} :
              /\ venv = "absent" => rm = "ok"
              /\ IF rm = "error"
                 THEN /\ Fault(1)
                      /\ Exit("venv")
                      /\ UNCHANGED <<config_state, clock, venv, venv_ret>>
                 ELSE \E o \in ProcOutcomes, fb \in {"ok", "raise"}, left \in PartialVenvs :
                        LET r == Run("venv", o)
                        IN /\ o # "oserror" => fb = "ok"
                           /\ o = "exit0" => left = "absent"
                           /\ (o = "oserror" /\ fb = "ok") => left = "absent"
                           /\ Fault(Cost(o))
                           /\ Ran(r)
                           /\ venv' = IF o = "exit0" \/ (o = "oserror" /\ fb = "ok")
                                      THEN "usable" ELSE left
                           /\ venv_ret' = IF r.ret = "raise" /\ fb = "raise"
                                          THEN "None" ELSE "dir"
                           /\ Goto("get_python")
    /\ UNCHANGED <<platform, dlState, cfg_file, patchFiles, runVars, trace, dl_calls,
                   python_exe, launcher_path, dep_i, dr_ret, xtts_dir, model_dir,
                   req_file, zips, orchFrame>>

\* get_python_executable, lines 402-439.
GetPythonExecutable ==
    /\ pc = "get_python"
    /\ IF venv_ret = "None" \/ ~VenvPythonExists(venv)
       THEN /\ python_exe' = "sys"
            /\ UNCHANGED <<config_state, faults>>
       ELSE \E o \in ProcOutcomes :
              LET r == RunCommand("python", FALSE, o, "", config_state.error_log, clock)
              IN /\ Fault(Cost(o))
                 /\ IF r.ret = "exit0"
                    THEN /\ python_exe' = "venv"
                         /\ config_state' = [config_state EXCEPT !.python_exe = <<"venv">>]
                    ELSE /\ python_exe' = "sys"
                         /\ config_state' = config_state
    /\ Goto("sysdeps")
    /\ UNCHANGED <<clock, platform, dlState, cfg_file, patchFiles, runVars, trace, dl_calls,
                   venv_ret, launcher_path, dep_i, dr_ret, fsVars, orchFrame>>

\* install_system_dependencies and detect_ffmpeg, lines 201-265: every command
\* runs with check=False, so nothing is recorded whatever happens.
InstallSystemDependencies ==
    /\ pc = "sysdeps"
    /\ Goto("clone")
    /\ UNCHANGED <<config_state, clock, platform, dlState, cfg_file, patchFiles, runVars,
                   faults, trace, dl_calls, python_exe, venv_ret, launcher_path, dep_i,
                   dr_ret, fsVars, orchFrame>>

\* XTTS_DIR.exists() (line 270) chooses git pull over git clone.  A pull in a
\* directory that holds no checkout leaves it without the application.
UpdatePath(dir) == dir # "absent"

\* clone_repository, lines 268-333.
CloneRepository ==
    /\ pc = "clone"
    /\ \E o \in ProcOutcomes, zip \in {"ok", "fail"} :
         LET r == Run("git", o)
         IN /\ (UpdatePath(xtts_dir) \/ o # "oserror") => zip = "ok"
            /\ Fault(Cost(o))
            /\ Ran(r)
            /\ xtts_dir' = IF UpdatePath(xtts_dir) THEN xtts_dir
                           ELSE IF o = "exit0" \/ (o = "oserror" /\ zip = "ok")
                                THEN "app" ELSE "absent"
            /\ IF ~UpdatePath(xtts_dir) /\ o = "oserror" /\ zip = "fail"
               THEN Exit("clone") ELSE Goto("pip_upgrade")
    /\ UNCHANGED <<platform, dlState, cfg_file, patchFiles, runVars, trace, dl_calls,
                   python_exe, venv_ret, launcher_path, dep_i, dr_ret, model_dir, venv,
                   req_file, zips, orchFrame>>

\* install_python_dependencies, lines 467-475: pip upgrade.
PipUpgrade ==
    /\ pc = "pip_upgrade"
    /\ trace' = trace \cup {"install_python_dependencies"}
    /\ \E o \in ProcOutcomes :
         /\ Fault(Cost(o))
         /\ Ran(Run("pip", o))
    /\ Goto("pip_critical")
    /\ UNCHANGED <<platform, dlState, cfg_file, patchFiles, runVars, dl_calls, python_exe,
                   venv_ret, launcher_path, dep_i, dr_ret, fsVars, orchFrame>>

\* Lines 477-486: the critical dependencies in one command; only an exception
\* out of run_command starts the one-by-one installation.
PipCritical ==
    /\ pc = "pip_critical"
    /\ \E o \in ProcOutcomes :
         LET r == Run("pip", o)
         IN /\ Fault(Cost(o))
            /\ Ran(r)
            /\ IF r.ret = "raise"
               THEN Goto("pip_critical_each") /\ dep_i' = 1
               ELSE Goto("project_req") /\ dep_i' = dep_i
    /\ UNCHANGED <<platform, dlState, cfg_file, patchFiles, runVars, trace, dl_calls,
                   python_exe, venv_ret, launcher_path, dr_ret, fsVars, orchFrame>>

\* Lines 488-495: one critical dependency.
PipCriticalEach ==
    /\ pc = "pip_critical_each"
    /\ \E o \in ProcOutcomes :
         /\ Fault(Cost(o))
         /\ Ran(Run("pip", o))
    /\ IF dep_i = NumCritical
       THEN Goto("project_req") /\ dep_i' = 0
       ELSE Goto("pip_critical_each") /\ dep_i' = dep_i + 1
    /\ UNCHANGED <<platform, dlState, cfg_file, patchFiles, runVars, trace, dl_calls,
                   python_exe, venv_ret, launcher_path, dr_ret, fsVars, orchFrame>>

\* Lines 498-515: os.chdir(XTTS_DIR) outside every try, create_requirements_file
\* (lines 442-460) and pip install -r; a normal return of run_command leaves
\* install_python_dependencies at line 512, before line 540.
ProjectReq ==
    /\ pc = "project_req"
    /\ IF xtts_dir = "absent"
       THEN /\ Goto("except")
            /\ UNCHANGED <<config_state, clock, faults, req_file, trace>>
       ELSE \E w \in {"ok", "error"}, o \in ProcOutcomes :
              LET have == req_file \/ w = "ok"
                  r == Run("pip", o)
              IN /\ req_file => w = "ok"
                 /\ ~have => o = "exit0"
                 /\ req_file' = have
                 /\ trace' = IF have /\ o = "exit0"
                              THEN trace \cup {"requirements_installed"} ELSE trace
                 /\ IF have
                    THEN /\ Fault(Cost(o))
                         /\ Ran(r)
                         /\ IF r.ret = "raise" THEN Goto("project_direct")
                            ELSE Goto("decide")
                    ELSE /\ Fault(1)
                         /\ UNCHANGED <<config_state, clock>>
                         /\ Goto("project_direct")
    /\ UNCHANGED <<platform, dlState, cfg_file, patchFiles, runVars, dl_calls,
                   python_exe, venv_ret, launcher_path, dep_i, dr_ret, xtts_dir,
                   model_dir, venv, zips, orchFrame>>

\* Lines 517-528: the project dependencies in one command.
ProjectDirect ==
    /\ pc = "project_direct"
    /\ \E o \in ProcOutcomes :
         LET r == Run("pip", o)
         IN /\ Fault(Cost(o))
            /\ clock' = IF r.logged THEN clock + 1 ELSE clock
            /\ IF r.ret = "raise"
               THEN /\ Goto("project_each")
                    /\ dep_i' = 1
                    /\ config_state' = [config_state EXCEPT !.error_log = r.log]
               ELSE /\ Goto("decide")
                    /\ dep_i' = dep_i
                    /\ config_state' = [config_state EXCEPT !.error_log = r.log,
                                                            !.installed = TRUE]
    /\ UNCHANGED <<platform, dlState, cfg_file, patchFiles, runVars, trace, dl_calls,
                   python_exe, venv_ret, launcher_path, dr_ret, fsVars, orchFrame>>

\* Lines 530-540: one project dependency; after the last, installed is set.
ProjectEach ==
    /\ pc = "project_each"
    /\ \E o \in ProcOutcomes :
         LET r == Run("pip", o)
         IN /\ Fault(Cost(o))
            /\ clock' = IF r.logged THEN clock + 1 ELSE clock
            /\ config_state' = [config_state EXCEPT
                                  !.error_log = r.log,
                                  !.installed = IF dep_i = NumProject THEN TRUE ELSE @]
    /\ IF dep_i = NumProject
       THEN Goto("decide") /\ dep_i' = 0
       ELSE Goto("project_each") /\ dep_i' = dep_i + 1
    /\ UNCHANGED <<platform, dlState, cfg_file, patchFiles, runVars, trace, dl_calls,
                   python_exe, venv_ret, launcher_path, dr_ret, fsVars, orchFrame>>

\* A plausible slip: the recorded state is not consulted.
ShouldDownloadIgnoringState(a, st) == a.force \/ ~a.skip

\* A plausible slip: --skip-download wins over --force-download.
ShouldDownloadSkipWins(a, st) == ~a.skip /\ (a.force \/ ~st.models_downloaded)

\* The condition of lines 1058-1060.
ShouldDownload(a, st) == a.force \/ (~a.skip /\ ~st.models_downloaded)

\* main, lines 1057-1067.
DownloadDecision ==
    /\ pc = "decide"
    /\ IF ShouldDownload(args, config_state)
       THEN Goto("download_resources")
       ELSE Goto("patch")
    /\ UNCHANGED <<config_state, clock, platform, dlState, cfg_file, patchFiles, runVars,
                   faults, trace, dl_calls, python_exe, venv_ret, launcher_path, dep_i,
                   dr_ret, fsVars, orchFrame>>

\* MODEL_DIR.exists() and list(MODEL_DIR.glob("*.json")) (line 634).
ModelFilesPresent(dir) == dir \in {"other_json", "config"}

\* download_resources, lines 631-646: return at once when model files are
\* there, otherwise call download_file for the model archive.
DownloadResources ==
    /\ pc = "download_resources"
    /\ trace' = trace \cup {"download_resources"}
    /\ IF ModelFilesPresent(model_dir)
       THEN /\ config_state' = [config_state EXCEPT !.models_downloaded = TRUE]
            /\ dr_ret' = "True"
            /\ Goto("patch")
            /\ UNCHANGED <<dlState, dl_calls>>
       ELSE /\ dl_calls' = Append(dl_calls, "model")
            /\ dl_pc' = "wget"
            /\ dl_attempts' = <<>>
            /\ dl_ret' = "none"
            /\ dl_file' = zips.model
            /\ Goto("dl_model")
            /\ UNCHANGED <<config_state, dr_ret>>
    /\ UNCHANGED <<clock, platform, cfg_file, patchFiles, runVars, faults, python_exe,
                   venv_ret, launcher_path, dep_i, fsVars, orchFrame>>

\* A strategy of download_file that does not succeed is a failure of the
\* environment.
DlFault == Fault(IF dl_ret' = "True" THEN 0 ELSE 1)

\* download_resources, lines 648-679: the model archive is extracted and
\* config.json looked for, then download_file is called for the voices.
ModelExtracted ==
    /\ pc = "dl_model"
    /\ dl_pc = "returned"
    /\ zips' = [zips EXCEPT !.model = dl_file]
    /\ IF dl_ret # "True"
       THEN /\ dr_ret' = "False"
            /\ dl_pc' = "idle"
            /\ Goto("patch")
            /\ UNCHANGED <<faults, model_dir, dl_calls, dl_attempts, dl_ret, dl_file>>
       ELSE \E x \in {"config", "other_json", "no_json", "bad_zip"} :
              /\ Fault(IF x = "config" THEN 0 ELSE 1)
              /\ model_dir' = CASE x = "config" -> "config"
                                [] x = "other_json" -> "other_json"
                                [] x = "no_json" /\ model_dir = "absent" -> "empty"
                                [] OTHER -> model_dir
              /\ IF x = "config"
                 THEN /\ dl_calls' = Append(dl_calls, "voices")
                      /\ dl_pc' = "wget"
                      /\ dl_attempts' = <<>>
                      /\ dl_ret' = "none"
                      /\ dl_file' = zips.voices
                      /\ Goto("dl_voices")
                      /\ dr_ret' = dr_ret
                 ELSE /\ dr_ret' = "False"
                      /\ dl_pc' = "idle"
                      /\ Goto("patch")
                      /\ UNCHANGED <<dl_calls, dl_attempts, dl_ret, dl_file>>
    /\ UNCHANGED <<config_state, clock, platform, cfg_file, patchFiles, runVars, trace,
                   python_exe, venv_ret, launcher_path, dep_i, xtts_dir, venv, req_file,
                   orchFrame>>

\* A plausible slip: the voice samples are required too.
ResourcesReadyWithVoices(modelOk, voicesOk) == modelOk /\ voicesOk

\* Lines 681-698 only warn when the voices fail; line 711 is reached once the
\* model was extracted with config.json.
ResourcesReady(modelOk, voicesOk) == modelOk

\* download_resources, lines 681-712: voices are optional; the archives are
\* removed and models_downloaded is set.
VoicesExtracted ==
    /\ pc = "dl_voices"
    /\ dl_pc = "returned"
    /\ \E c \in {"ok", "error"} :
         /\ Fault(Cost(c))
         /\ zips' = IF c = "ok" THEN [model |-> NoFile, voices |-> NoFile]
                    ELSE [zips EXCEPT !.voices = dl_file]
         /\ LET ready == ResourcesReady(model_dir = "config", dl_ret = "True" /\ c = "ok")
            IN /\ config_state' = IF ready
                                   THEN [config_state EXCEPT !.models_downloaded = TRUE]
                                   ELSE config_state
               /\ dr_ret' = IF ready THEN "True" ELSE "False"
    /\ dl_pc' = "idle"
    /\ Goto("patch")
    /\ UNCHANGED <<clock, platform, dl_attempts, dl_ret, dl_file, cfg_file, patchFiles,
                   runVars, trace, dl_calls, python_exe, venv_ret, launcher_path, dep_i,
                   xtts_dir, model_dir, venv, req_file, orchFrame>>

EnvCost(env) == Cost(env.mkdir) + Cost(env.shim) + Cost(env.trainer) + Cost(env.dyn)

\* main, line 1070: apply_compatibility_patch; an exception out of it reaches
\* the handler of line 1099.
PatchStage ==
    /\ pc = "patch"
    /\ trace' = trace \cup {"apply_compatibility_patch"}
    /\ \E env \in PatchEnvs :
         LET r == ApplyCompatibilityPatch(shim, sites, tf_has_lw,
                                          config_state.patched, env)
         IN /\ env.mkdir = "error" =>
                 (env.shim = "ok" /\ env.trainer = "ok" /\ env.dyn = "ok")
            /\ Fault(EnvCost(env))
            /\ shim' = r.shim
            /\ sites' = r.sites
            /\ tf_has_lw' = r.attr
            /\ config_state' = [config_state EXCEPT !.patched = r.patched]
            /\ IF r.ret = "raised" THEN Goto("except") ELSE Goto("launcher")
    /\ UNCHANGED <<clock, platform, dlState, cfg_file, runVars, dl_calls, python_exe,
                   venv_ret, launcher_path, dep_i, dr_ret, fsVars, orchFrame>>

\* create_launcher_script, lines 832-1002: the launcher is written next to the
\* orchestrator, or under temp/, or not at all.
CreateLauncherScript ==
    /\ pc = "launcher"
    /\ trace' = trace \cup {"create_launcher_script"}
    /\ \E w \in {"base", "temp", "none"} :
         /\ Fault(IF w = "base" THEN 0 ELSE 1)
         /\ launcher_path' = w
    /\ Goto("save")
    /\ UNCHANGED <<config_state, clock, platform, dlState, cfg_file, patchFiles, runVars,
                   dl_calls, python_exe, venv_ret, dep_i, dr_ret, fsVars, orchFrame>>

\* A plausible slip: the state is written without a new last_run.
UnstampedState(st, now) == st

\* save_config_state, line 83.
StampedState(st, now) == [st EXCEPT !.last_run = <<now>>]

\* A plausible slip: the entries already in the file are kept in front.
WriteFileMerging(st, old) ==
    IF old.kind = "map" /\ "error_log" \in old.keys
    THEN MapFile(Fields \cup st.extra,
                 [installed |-> st.installed, models_downloaded |-> st.models_downloaded,
                  patched |-> st.patched, last_run |-> st.last_run,
                  python_exe |-> st.python_exe,
                  error_log |-> old.val.error_log \o st.error_log])
    ELSE MapFile(Fields \cup st.extra,
                 [installed |-> st.installed, models_downloaded |-> st.models_downloaded,
                  patched |-> st.patched, last_run |-> st.last_run,
                  python_exe |-> st.python_exe, error_log |-> st.error_log])

\* open(CONFIG_FILE, "w") and json.dump (lines 84-85): what the file held is
\* discarded.
WriteFile(st, old) ==
    MapFile(Fields \cup st.extra,
            [installed |-> st.installed, models_downloaded |-> st.models_downloaded,
             patched |-> st.patched, last_run |-> st.last_run,
             python_exe |-> st.python_exe, error_log |-> st.error_log])

\* json.dump(config_state) (line 85) as json.load will read it back.
StateFile(st) ==
    MapFile(Fields \cup st.extra,
            [installed |-> st.installed, models_downloaded |-> st.models_downloaded,
             patched |-> st.patched, last_run |-> st.last_run,
             python_exe |-> st.python_exe, error_log |-> st.error_log])

\* main, lines 1076-1095: save_config_state (lines 81-86), then return 0.
SaveConfigState ==
    /\ pc = "save"
    /\ trace' = trace \cup {"save_config_state"}
    /\ config_state' = StampedState(config_state, clock)
    /\ clock' = clock + 1
    /\ \E w \in {"ok", "error"} :
         /\ Fault(Cost(w))
         /\ IF w = "ok"
            THEN cfg_file' = WriteFile(config_state', cfg_file) /\ Exit("none")
            ELSE cfg_file' = cfg_file /\ Goto("except")
    /\ UNCHANGED <<platform, dlState, patchFiles, runVars, dl_calls, python_exe, venv_ret,
                   launcher_path, dep_i, dr_ret, fsVars, orchFrame>>

\* The error_log entry of lines 1104-1110.
ExceptionEntry(now) ==
    [kind |-> "exception", timestamp |-> now, error |-> "Exception",
     traceback |-> "traceback"]

\* main, lines 1099-1113: the exception is recorded, the state saved, 1 returned;
\* an error of this save leaves main as an uncaught exception (status 1).
MainExcept ==
    /\ pc = "except"
    /\ LET logged == [config_state EXCEPT
                        !.error_log = Append(@, ExceptionEntry(clock))]
       IN config_state' = StampedState(logged, clock + 1)
    /\ clock' = clock + 2
    /\ \E w \in {"ok", "error"} :
         /\ Fault(Cost(w))
         /\ cfg_file' = IF w = "ok" THEN WriteFile(config_state', cfg_file) ELSE cfg_file
    /\ Exit("exception")
    /\ UNCHANGED <<platform, dlState, patchFiles, runVars, trace, dl_calls, python_exe,
                   venv_ret, launcher_path, dep_i, dr_ret, fsVars, orchFrame>>

\* The stages inside the try block of main (lines 1039-1095).
TryStages ==
    {"check_python", "setup_env", "venv", "get_python", "sysdeps", "clone",
     "pip_upgrade", "pip_critical", "pip_critical_each", "project_req",
     "project_direct", "project_each", "decide", "download_resources", "dl_model",
     "dl_voices", "patch", "launcher", "save"}

\* main, lines 1096-1098: Ctrl+C during the try block; nothing is saved.
KeyboardInterrupt ==
    /\ pc \in TryStages
    /\ Fault(1)
    /\ Exit("interrupt")
    /\ dl_pc' = "idle"
    /\ UNCHANGED <<config_state, clock, platform, dl_attempts, dl_ret, dl_file, cfg_file,
                   patchFiles, runVars, trace, dl_calls, python_exe, venv_ret,
                   launcher_path, dep_i, dr_ret, fsVars, orchFrame>>

\* Overlapping runs: each process loads the state file into its own
\* config_state, works on it, and saves it.
overlapFrame == <<config_state, cmd_last, platform, dl_pc, dl_attempts, dl_ret, dl_file,
                  load_ret, patchVars, launchVars, pc, args, exit_code, runs, trace,
                  dl_calls, start_file, python_exe, venv_ret, launcher_path, dep_i,
                  dr_ret, fatal, faults, fsVars>>

\* load_config_state at the start of main (line 1032), in process p.
OLoad(p) ==
    /\ ppc[p] = "start"
    /\ mem' = [mem EXCEPT ![p] = LoadConfigState(DefaultState, cfg_file).state]
    /\ ppc' = [ppc EXCEPT ![p] = "loaded"]
    /\ UNCHANGED <<clock, cfg_file, overlapFrame>>

\* A stage of process p sets one of the flags (lines 540, 711, 828).
OSetFlag(p) ==
    /\ ppc[p] = "loaded"
    /\ \E k \in {"installed", "models_downloaded", "patched"} :
         /\ ~mem[p][k]
         /\ mem' = [mem EXCEPT ![p][k] = TRUE]
    /\ UNCHANGED <<clock, cfg_file, ppc, overlapFrame>>

\* A check=True command of process p exits non-zero (lines 137-145).
OFail(p) ==
    /\ ppc[p] = "loaded"
    /\ Len(mem[p].error_log) < MaxLog
    /\ \E cmd \in {"pip", "git"} :
         LET r == RunCommand(cmd, TRUE, "exit_nz", "msg", mem[p].error_log, clock)
         IN mem' = [mem EXCEPT ![p].error_log = r.log]
    /\ clock' = clock + 1
    /\ UNCHANGED <<cfg_file, ppc, overlapFrame>>

\* save_config_state in process p (lines 81-86).
OSave(p) ==
    /\ ppc[p] = "loaded"
    /\ mem' = [mem EXCEPT ![p] = StampedState(mem[p], clock)]
    /\ cfg_file' = WriteFile(mem'[p], cfg_file)
    /\ clock' = clock + 1
    /\ ppc' = [ppc EXCEPT ![p] = "saved"]
    /\ UNCHANGED overlapFrame

----------------------------------------------------------------------------
(* Specifications *)

InitCommon ==
    /\ config_state = DefaultState
    /\ clock = 0
    /\ cmd_last = NoCmd

InitDownloadIdle ==
    /\ platform = "posix"
    /\ dl_pc = "idle"
    /\ dl_attempts = <<>>
    /\ dl_ret = "none"
    /\ dl_file = NoFile

InitStoreIdle ==
    /\ cfg_file = MissingFile
    /\ load_ret = "none"

InitPatchIdle ==
    /\ shim = "absent"
    /\ sites = [i \in 1..NumSites |-> NoSite]
    /\ tf_has_lw = FALSE
    /\ patch_env = [mkdir |-> "ok", shim |-> "ok", trainer |-> "ok", dyn |-> "ok"]
    /\ patch_count = 0
    /\ patch_ret = "none"

InitLaunchIdle ==
    /\ l_pc = "Idle"
    /\ l_exit = <<>>
    /\ l_config = FALSE
    /\ l_files = {}
    /\ l_patch = "none"
    /\ l_verified = "none"
    /\ l_script = <<>>
    /\ spawn_count = 0
    /\ child = "none"
    /\ child_rc = 0
    /\ child_signals = <<>>
    /\ h_pc = "none"
    /\ h_timer = 0
    /\ h_child_running = FALSE
    /\ h_exit_at = <<>>

\* Two orchestrator processes started in the same directory.
Procs == {1, 2}

InitOverlapIdle ==
    /\ mem = [p \in Procs |-> DefaultState]
    /\ ppc = [p \in Procs |-> "idle"]

InitOrchIdle ==
    /\ pc = "idle"
    /\ args = [skip |-> FALSE, force |-> FALSE, no_venv |-> FALSE]
    /\ exit_code = <<>>
    /\ runs = 0
    /\ faults = 0
    /\ trace = {}
    /\ dl_calls = <<>>
    /\ start_file = MissingFile
    /\ python_exe = "sys"
    /\ venv_ret = "None"
    /\ launcher_path = "none"
    /\ dep_i = 0
    /\ dr_ret = "none"
    /\ fatal = "none"
    /\ xtts_dir = "absent"
    /\ model_dir = "absent"
    /\ venv = "absent"
    /\ req_file = FALSE
    /\ zips = [model |-> NoFile, voices |-> NoFile]
    /\ InitOverlapIdle

\* The orchestrator, run up to MaxRuns times in the same directory.
Init ==
    /\ InitCommon
    /\ platform \in Platforms
    /\ dl_pc = "idle"
    /\ dl_attempts = <<>>
    /\ dl_ret = "none"
    /\ dl_file = NoFile
    /\ cfg_file \in {MissingFile, GarbageFile,
                     MapFile({"models_downloaded", "patched"}, FileVal)}
    /\ load_ret = "none"
    /\ shim = "absent"
    /\ sites = [i \in 1..NumSites |->
                  IF i = NumSites THEN [exists |-> TRUE, content |-> <<"FTI">>]
                  ELSE NoSite]
    /\ tf_has_lw = FALSE
    /\ patch_env = [mkdir |-> "ok", shim |-> "ok", trainer |-> "ok", dyn |-> "ok"]
    /\ patch_count = 0
    /\ patch_ret = "none"
    /\ InitLaunchIdle
    /\ pc = "idle"
    /\ args = [skip |-> FALSE, force |-> FALSE, no_venv |-> FALSE]
    /\ exit_code = <<>>
    /\ runs = 0
    /\ faults = 0
    /\ trace = {}
    /\ dl_calls = <<>>
    /\ start_file = MissingFile
    /\ python_exe = "sys"
    /\ venv_ret = "None"
    /\ launcher_path = "none"
    /\ dep_i = 0
    /\ dr_ret = "none"
    /\ fatal = "none"
    /\ model_dir \in {"absent", "config"}
    /\ xtts_dir = IF model_dir = "absent" THEN "absent" ELSE "app"
    /\ venv = "absent"
    /\ req_file = FALSE
    /\ zips = [model |-> NoFile, voices |-> NoFile]
    /\ InitOverlapIdle
Next ==
    \/ MainStart
    \/ CheckPythonVersion
    \/ SetupEnvironment
    \/ UseSystemPython
    \/ CreateVirtualEnvironment
    \/ GetPythonExecutable
    \/ InstallSystemDependencies
    \/ CloneRepository
    \/ PipUpgrade
    \/ PipCritical
    \/ PipCriticalEach
    \/ ProjectReq
    \/ ProjectDirect
    \/ ProjectEach
    \/ DownloadDecision
    \/ DownloadResources
    \/ TryCli("wget") /\ DlFault
    \/ TryCli("curl") /\ DlFault
    \/ SkipCli("wget")
    \/ SkipCli("curl")
    \/ TryRequests /\ DlFault
    \/ ModelExtracted
    \/ VoicesExtracted
    \/ PatchStage
    \/ CreateLauncherScript
    \/ SaveConfigState
    \/ MainExcept
    \/ KeyboardInterrupt
Spec == Init /\ [][Next]_vars

\* Two overlapping orchestrator runs.
InitOverlap ==
    /\ InitCommon
    /\ InitDownloadIdle
    /\ cfg_file \in {MissingFile, MapFile({"models_downloaded", "patched"}, FileVal)}
    /\ load_ret = "none"
    /\ InitPatchIdle
    /\ InitLaunchIdle
    /\ pc = "idle"
    /\ args = [skip |-> FALSE, force |-> FALSE, no_venv |-> FALSE]
    /\ exit_code = <<>>
    /\ runs = 0
    /\ faults = 0
    /\ trace = {}
    /\ dl_calls = <<>>
    /\ start_file = MissingFile
    /\ python_exe = "sys"
    /\ venv_ret = "None"
    /\ launcher_path = "none"
    /\ dep_i = 0
    /\ dr_ret = "none"
    /\ fatal = "none"
    /\ xtts_dir = "absent"
    /\ model_dir = "absent"
    /\ venv = "absent"
    /\ req_file = FALSE
    /\ zips = [model |-> NoFile, voices |-> NoFile]
    /\ mem = [p \in Procs |-> DefaultState]
    /\ ppc = [p \in Procs |-> "start"]
NextOverlap ==
    \/ \E p \in Procs : OLoad(p)
    \/ \E p \in Procs : OSetFlag(p)
    \/ \E p \in Procs : OFail(p)
    \/ \E p \in Procs : OSave(p)
SpecOverlap == InitOverlap /\ [][NextOverlap]_vars

\* The command runner on its own.
InitCmd ==
    InitCommon /\ InitDownloadIdle /\ InitStoreIdle /\ InitPatchIdle /\ InitLaunchIdle
    /\ InitOrchIdle
NextCmd == CmdCall
SpecCmd == InitCmd /\ [][NextCmd]_vars

\* One call of download_file on any platform, with any file left at the
\* destination by an earlier call.
InitDownload ==
    /\ InitCommon
    /\ platform \in Platforms
    /\ dl_pc = "wget"
    /\ dl_attempts = <<>>
    /\ dl_ret = "none"
    /\ dl_file \in Files
    /\ InitStoreIdle
    /\ InitPatchIdle
    /\ InitLaunchIdle
    /\ InitOrchIdle
NextDownload ==
    \/ TryCli("wget") /\ UNCHANGED faults
    \/ TryCli("curl") /\ UNCHANGED faults
    \/ SkipCli("wget")
    \/ SkipCli("curl")
    \/ TryRequests /\ UNCHANGED faults
SpecDownload == InitDownload /\ [][NextDownload]_vars

\* load_config_state at process start, on any state file.
InitLoad ==
    /\ InitCommon
    /\ InitDownloadIdle
    /\ cfg_file \in LoadFiles
    /\ load_ret = "none"
    /\ InitPatchIdle
    /\ InitLaunchIdle
    /\ InitOrchIdle
NextLoad == LoadCall
SpecLoad == InitLoad /\ [][NextLoad]_vars

\* The compatibility patcher applied repeatedly to any installation, the
\* file-system conditions being the same at every application.
InitPatch ==
    /\ InitCommon
    /\ InitDownloadIdle
    /\ InitStoreIdle
    /\ shim \in {"absent", "stale", "code"}
    /\ sites \in [1..NumSites -> SiteFiles]
    /\ tf_has_lw \in BOOLEAN
    /\ patch_env \in PatchEnvs
    /\ patch_count = 0
    /\ patch_ret = "none"
    /\ InitLaunchIdle
    /\ InitOrchIdle
NextPatch == ApplyPatch
SpecPatch == InitPatch /\ [][NextPatch]_vars

\* One run of the launcher in any project directory, with SIGINT arriving
\* at any moment.
InitLauncher ==
    /\ InitCommon
    /\ InitDownloadIdle
    /\ InitStoreIdle
    /\ InitPatchIdle
    /\ l_pc = "Idle"
    /\ l_exit = <<>>
    /\ l_config \in BOOLEAN
    /\ l_files \in SUBSET ProjectFiles
    /\ l_patch = "none"
    /\ l_verified = "none"
    /\ l_script = <<>>
    /\ spawn_count = 0
    /\ child = "none"
    /\ child_rc = 0
    /\ child_signals = <<>>
    /\ h_pc = "none"
    /\ h_timer = 0
    /\ h_child_running = FALSE
    /\ h_exit_at = <<>>
    /\ InitOrchIdle
NextLauncher ==
    \/ LChdir
    \/ LPatch
    \/ LVerifyModel
    \/ LSpawn
    \/ ChildExit
    \/ LChildDone
    \/ LLoopError
    \/ LErrorExit
    \/ Interrupt
    \/ HTick
    \/ HWaitDone
    \/ HTimeout
SpecLauncher == InitLauncher /\ [][NextLauncher]_vars

----------------------------------------------------------------------------
(* Properties of the downloader (SpecDownload) *)

\* The strategies download_file uses on this platform, in order.
Applicable ==
    IF platform = "win32" THEN <<"requests">> ELSE <<"wget", "curl", "requests">>

\* A strategy succeeded: it ended cleanly (exit code 0, or the streaming
\* fetch ended without an error) and left more than 1000 bytes.
AttemptOk(a) ==
    /\ a.outcome \in {"exit0", "ok"}
    /\ a.file.exists
    /\ a.file.size > 1000

\* C1: download_file invokes its strategies in the order wget, curl, requests;
\* a strategy that fails is followed by the next one; the first strategy that
\* exits cleanly and leaves more than 1000 bytes ends the call with True, and
\* no strategy is invoked after it.
C1_FirstSuccessWins ==
    /\ Len(dl_attempts) <= Len(Applicable)
    /\ \A i \in 1..Len(dl_attempts) : dl_attempts[i].name = Applicable[i]
    /\ \A i \in 1..Len(dl_attempts) :
         AttemptOk(dl_attempts[i]) =>
            /\ i = Len(dl_attempts)
            /\ dl_pc = "returned"
            /\ dl_ret = "True"
    /\ dl_ret = "True" =>
         /\ Len(dl_attempts) > 0
         /\ AttemptOk(dl_attempts[Len(dl_attempts)])
    /\ (dl_pc # "returned" /\ platform # "win32") =>
         dl_pc = Applicable[Len(dl_attempts) + 1]

\* wget exits 0 but leaves an undersized file, curl then succeeds.
C1_Witness ==
    /\ dl_ret = "True"
    /\ Len(dl_attempts) = 2
    /\ dl_attempts[1].outcome = "exit0"
    /\ dl_attempts[1].file.size <= 1000
    /\ dl_attempts[2].name = "curl"

\* C2: whatever each strategy does (executable missing, non-zero exit,
\* undersized file, HTTP error, I/O error while streaming), download_file
\* returns a boolean, and it returns False only after every applicable
\* strategy has been invoked and has failed.
C2_NeverRaises ==
    dl_pc = "returned" =>
        /\ dl_ret \in {"True", "False"}
        /\ dl_ret = "False" =>
             /\ Len(dl_attempts) = Len(Applicable)
             /\ \A i \in 1..Len(dl_attempts) :
                  /\ dl_attempts[i].name = Applicable[i]
                  /\ ~AttemptOk(dl_attempts[i])

\* wget is missing, curl exits non-zero, the streaming fetch breaks off.
C2_Witness ==
    /\ dl_pc = "returned"
    /\ dl_ret = "False"
    /\ Len(dl_attempts) = 3
    /\ dl_attempts[1].outcome = "oserror"
    /\ dl_attempts[2].outcome = "exit_nz"
    /\ dl_attempts[3].outcome = "io_error"

----------------------------------------------------------------------------
(* Properties of the command runner (SpecCmd) *)

\* C10: every command that exits non-zero, with check=True or check=False,
\* is logged as an error and adds exactly one entry
\* {timestamp, command, error, stderr} to error_log.
C10_EveryFailureLogged ==
    cmd_last.outcome = "exit_nz" =>
        /\ cmd_last.logged
        /\ Len(config_state.error_log) = cmd_last.before + 1
        /\ config_state.error_log[Len(config_state.error_log)].command = cmd_last.cmd

----------------------------------------------------------------------------
(* Properties of the state store (SpecLoad) *)

\* C3: load_config_state never raises; with the state file missing or
\* corrupt (unparseable, or not a mapping) the state afterwards equals the
\* defaults in every field; with a well-formed mapping the fields it holds
\* override the defaults and the others keep them.
C3_LoadTotal ==
    load_ret # "none" =>
        /\ load_ret = "returned"
        /\ cfg_file.kind # "map" => config_state = DefaultState
        /\ cfg_file.kind = "map" =>
             \A k \in Fields :
                config_state[k] = IF k \in cfg_file.keys THEN cfg_file.val[k]
                                  ELSE DefaultState[k]

----------------------------------------------------------------------------
(* Properties of the compatibility patcher (SpecPatch) *)

\* C9: once apply_compatibility_patch has been applied, applying it again
\* leaves the shim file and every gpt_trainer.py exactly as the first
\* application left them.
C9_PatchIdempotent ==
    [][patch_count >= 1 => (shim' = shim /\ sites' = sites)]_vars

\* Two applications, the first of which wrote the shim and rewrote the import.
C9_Witness ==
    /\ patch_count = 2
    /\ patch_ret = "returned"
    /\ shim = "code"
    /\ sites[1].exists
    /\ sites[1].content = <<"FTI", "ALIAS", "FTI", "ALIAS">>

----------------------------------------------------------------------------
(* Properties of the launcher (SpecLauncher) *)

\* C7: a launcher run that finds model/config.json absent when it verifies
\* it exits with status 1 and never spawns a child.
C7_NoModelNoChild ==
    l_verified = "absent" =>
        /\ l_exit = <<1>>
        /\ spawn_count = 0
        /\ child = "none"

\* The model check was reached with config.json absent, scripts being present.
C7_Witness ==
    /\ l_verified = "absent"
    /\ "app.py" \in l_files
    /\ l_pc = "Failed"

\* C8: on SIGINT with the child running the child is first sent a terminate
\* request; it is sent a kill exactly when it has not exited within the 5
\* seconds of grace after that request; a kill never precedes the terminate.
C8_TerminateThenKill ==
    /\ \A i \in 1..Len(child_signals) :
         child_signals[i] = "KILL" => \E j \in 1..(i - 1) : child_signals[j] = "TERM"
    /\ (h_pc # "none" /\ h_child_running) =>
         /\ child_signals # <<>>
         /\ child_signals[1] = "TERM"
    /\ h_pc = "waiting" => \A i \in 1..Len(child_signals) : child_signals[i] # "KILL"
    /\ (h_pc = "done" /\ h_child_running) =>
         /\ (\E i \in 1..Len(child_signals) : child_signals[i] = "KILL")
               <=> h_exit_at = <<>>
         /\ h_exit_at = <<>> => h_timer = 5
         /\ h_exit_at # <<>> => h_exit_at[1] <= 5

\* The child ignored the terminate request for 5 seconds and was killed.
C8_Witness ==
    /\ l_pc = "Interrupted"
    /\ h_child_running
    /\ child_signals = <<"TERM", "KILL">>
    /\ h_timer = 5

----------------------------------------------------------------------------
(* Properties of the orchestrator (Spec) *)

\* The state file this run started from is a JSON object recording key as true.
Recorded(key) ==
    /\ start_file.kind = "map"
    /\ key \in start_file.keys
    /\ start_file.val[key] = TRUE

\* The state file now holds a last_run, later than the one this run started from.
LastRunAdvanced ==
    /\ cfg_file.kind = "map"
    /\ "last_run" \in cfg_file.keys
    /\ cfg_file.val.last_run # <<>>
    /\ ("last_run" \in start_file.keys /\ start_file.val.last_run # <<>>) =>
          cfg_file.val.last_run[1] > start_file.val.last_run[1]

NoDownloadAttempt ==
    /\ "download_resources" \notin trace
    /\ dl_calls = <<>>
    /\ dl_attempts = <<>>

\* C4: a run that starts from a persisted state with models_downloaded true
\* and is not given --force-download never invokes download_resources or
\* download_file.
C4_NoDownloadWhenRecorded ==
    (pc # "idle" /\ Recorded("models_downloaded") /\ ~args.force) => NoDownloadAttempt

\* A second run, without --skip-download, over the state a first run saved,
\* has gone through to exit code 0.
C4_Witness ==
    /\ runs = 2
    /\ Recorded("models_downloaded")
    /\ "error_log" \in start_file.keys
    /\ ~args.force
    /\ ~args.skip
    /\ exit_code = <<0>>

\* C5: a run with --force-download that gets past the download stage has
\* called download_file for the model archive, whatever the state and the
\* model directory held.
C5_ForceRefetches ==
    (args.force /\ "apply_compatibility_patch" \in trace) =>
        (dl_calls # <<>> /\ dl_calls[1] = "model")

\* C6 as stated: from a state file with models_downloaded and patched true, a
\* finished run with --skip-download has installed dependencies, generated the
\* launcher, attempted no download, exited with code 0 and advanced last_run.
C6_SkipRunStated ==
    (pc = "done" /\ Recorded("models_downloaded") /\ Recorded("patched") /\ args.skip) =>
        /\ "install_python_dependencies" \in trace
        /\ "create_launcher_script" \in trace
        /\ NoDownloadAttempt
        /\ exit_code = <<0>>
        /\ LastRunAdvanced

\* C6: from a state file with models_downloaded and patched true, a run with
\* --skip-download and without --force-download attempts no download; it ends
\* with exit code 0 or 1, and when it ends with 0 it has installed
\* dependencies, generated the launcher and advanced the persisted last_run.
C6_SkipRun ==
    (pc # "idle" /\ Recorded("models_downloaded") /\ Recorded("patched")
       /\ args.skip /\ ~args.force) =>
        /\ NoDownloadAttempt
        /\ pc = "done" => exit_code \in {<<0>>, <<1>>}
        /\ exit_code = <<0>> =>
              /\ "install_python_dependencies" \in trace
              /\ "create_launcher_script" \in trace
              /\ LastRunAdvanced

\* Such a run has ended with code 0 over a state file that held a last_run.
C6_Witness ==
    /\ pc = "done"
    /\ Recorded("models_downloaded")
    /\ Recorded("patched")
    /\ "last_run" \in start_file.keys
    /\ args.skip
    /\ ~args.force
    /\ exit_code = <<0>>
    /\ dl_calls = <<>>

----------------------------------------------------------------------------
(* Properties of the command runner (SpecCmd), continued *)

\* C11 as stated: a failed command ends the process exactly when it was run
\* with check=True; with check=False the caller gets None.
C11_AbortsWhenMandatory ==
    (cmd_last.cmd # "none" /\ cmd_last.outcome = "exit_nz") =>
        /\ cmd_last.check <=> cmd_last.ret = "exit"
        /\ ~cmd_last.check => cmd_last.ret = "None"

\* C11: run_command never ends the process. A command exiting non-zero gives
\* the caller None (logged and recorded) when check=True and the result object
\* with its return code (nothing logged or recorded) when check=False; a
\* command that cannot be started raises to the caller.
C11_NeverTerminates ==
    cmd_last.cmd # "none" =>
        /\ cmd_last.ret \in {"exit0", "exit_nz", "None", "raise"}
        /\ cmd_last.outcome = "exit0" => cmd_last.ret = "exit0"
        /\ cmd_last.outcome = "oserror" => cmd_last.ret = "raise"
        /\ (cmd_last.outcome = "exit_nz" /\ cmd_last.check) =>
              (cmd_last.ret = "None" /\ cmd_last.logged)
        /\ (cmd_last.outcome = "exit_nz" /\ ~cmd_last.check) =>
              (cmd_last.ret = "exit_nz" /\ ~cmd_last.logged)

\* A second failed check=True command was run after a first one: the process
\* went on after the first failure.
C11_Witness ==
    /\ cmd_last.check
    /\ cmd_last.outcome = "exit_nz"
    /\ cmd_last.ret = "None"
    /\ cmd_last.before = 1
    /\ Len(config_state.error_log) = 2

----------------------------------------------------------------------------
(* Properties of the orchestrator (Spec), continued *)

SaveRan ==
    /\ config_state.last_run # <<>>
    /\ config_state.last_run # LoadConfigState(DefaultState, start_file).state.last_run

\* C13: every run that completes, and every run that ends in a fatal error
\* (the immediate exits of check_python_version, setup_environment,
\* create_virtual_environment and clone_repository included), has run
\* save_config_state and stamped a fresh last_run.
C13_SavedOnEveryEnd ==
    (pc = "done" /\ fatal # "interrupt") => SaveRan

\* The step ran a check=True command that exited non-zero: run_command
\* recorded it in error_log.
CommandFailed == Len(config_state'.error_log) > Len(config_state.error_log)

\* C14: when the batch installation of the critical dependencies fails with a
\* non-zero pip exit, the critical dependencies are next installed one by one.
C14_BatchFailureFallsBack ==
    [][(pc = "pip_critical" /\ CommandFailed) => pc' = "pip_critical_each"]_vars

\* C15: when requirements.txt can be neither found nor created, or pip -r
\* exits non-zero, the project dependencies are next installed from the
\* direct list.
C15_ManifestFailureFallsBack ==
    [][(pc = "project_req" /\ pc' \notin {"done", "except"}
          /\ (~req_file' \/ CommandFailed))
        => pc' = "project_direct"]_vars

\* C16: when the creation of the virtual environment has failed, the run uses
\* the ambient interpreter for the dependency installs and the launcher.
C16_FallsBackToAmbient ==
    (~args.no_venv /\ "install_python_dependencies" \in trace /\ venv # "usable")
        => python_exe = "sys"

\* download_file for the given archive has returned False: every strategy
\* that applies on the platform was tried and failed.
DownloadGaveUp(n) ==
    /\ Len(dl_calls) = n
    /\ dl_pc \in {"returned", "idle"}
    /\ dl_ret = "False"

\* C17: a run in which the model archive could not be downloaded by any
\* strategy ends with a non-zero exit status.
C17_ModelFailureAborts ==
    (pc = "done" /\ DownloadGaveUp(1)) => (exit_code # <<>> /\ exit_code # <<0>>)

\* error_log holds more entries than were loaded at the start of the run.
ErrorRecorded ==
    Len(config_state.error_log)
        > Len(LoadConfigState(DefaultState, start_file).state.error_log)

\* C18: a finished run, ended by nothing fatal, in which a pip install or git
\* pull exited with an error or the voices download failed, has that failure
\* in error_log, has gone through patch, launcher generation and state save,
\* and has exit code 0.
C18_RecoverableRecorded ==
    (pc = "done" /\ fatal = "none" /\ (ErrorRecorded \/ DownloadGaveUp(2))) =>
        /\ ErrorRecorded
        /\ {"apply_compatibility_patch", "create_launcher_script",
            "save_config_state"} \subseteq trace
        /\ exit_code = <<0>>

\* C19: whatever fails inside apply_compatibility_patch, it returns normally
\* and launcher generation is the next stage.
C19_PatchNeverAborts ==
    [][(pc = "patch" /\ fatal' # "interrupt") => pc' = "launcher"]_vars

----------------------------------------------------------------------------
(* Properties of the launcher (SpecLauncher), continued *)

\* The place of a phase in the order of the launcher's state machine; the
\* error exits (status 1) and the wait of the error handler come last.
PhaseRank(p) ==
    CASE p = "Idle" -> 0
      [] p = "EnvironmentPrepared" -> 1
      [] p = "PatchApplied" -> 2
      [] p = "ModelVerified" -> 3
      [] p = "ChildRunning" -> 4
      [] p = "ErrorWait" -> 5
      [] OTHER -> 6

LTerminal == {"ChildExitedClean", "ChildExitedError", "Interrupted", "Failed"}

\* C20: in a launcher run the phases follow the order Idle,
\* EnvironmentPrepared, PatchApplied, ModelVerified, ChildRunning, then an end
\* of the run; a phase once left is never entered again, the end of the run is
\* final, and at most one child is spawned and never started again.
C20_PhasesInOrder ==
    [][/\ l_pc' # l_pc => PhaseRank(l_pc') > PhaseRank(l_pc)
       /\ (l_pc' # l_pc /\ PhaseRank(l_pc') <= 4) => PhaseRank(l_pc') = PhaseRank(l_pc) + 1
       /\ l_pc \in LTerminal => l_pc' = l_pc
       /\ l_pc' \in {"ChildExitedClean", "ChildExitedError"} => l_pc \in {"ChildRunning", l_pc'}
       /\ spawn_count' <= 1
       /\ child = "exited" => child' = "exited"]_vars

\* The child ended with an error and the run ended without another child.
C20_Witness ==
    /\ l_pc = "ChildExitedError"
    /\ spawn_count = 1
    /\ child = "exited"
    /\ child_rc = 1

\* C21: a launcher that was interrupted while its child was running has not
\* exited before the child has exited.
C21_WaitsForChild ==
    (l_pc = "Interrupted" /\ h_child_running) => child = "exited"

\* C22: once the launcher has tried to load or apply the compatibility patch,
\* whatever came of it, the run has not ended before the model check.
C22_PatchNeverExits ==
    l_patch # "none" => ~(l_pc = "Failed" /\ l_verified = "none")

----------------------------------------------------------------------------
(* Properties of the orchestrator (Spec), continued *)

----------------------------------------------------------------------------
(* Properties of overlapping runs (SpecOverlap) *)

\* The process whose save came last.
LastSaver == CHOOSE p \in Procs : \A q \in Procs : mem[q].last_run[1] <= mem[p].last_run[1]

InLog(e, log) == \E i \in 1..Len(log) : log[i] = e

\* C24: after two overlapping runs have both saved, the state file is exactly
\* the state of the run that saved last: nothing is merged, and entries or
\* flags that only the other run recorded are not in the file.
C24_LastWriterWins ==
    (\A p \in Procs : ppc[p] = "saved") =>
        LET w == LastSaver
        IN /\ cfg_file = StateFile(mem[w])
           /\ \A q \in Procs \ {w} :
                /\ \A i \in 1..Len(mem[q].error_log) :
                      ~InLog(mem[q].error_log[i], mem[w].error_log)
                        => ~InLog(mem[q].error_log[i], cfg_file.val.error_log)
                /\ \A k \in {"installed", "models_downloaded", "patched"} :
                      ~mem[w][k] => ~cfg_file.val[k]

\* Both runs saved; the one that saved first had recorded a failure and set
\* installed, and the file holds neither.
C24_Witness ==
    /\ \A p \in Procs : ppc[p] = "saved"
    /\ \E q \in Procs \ {LastSaver} :
         /\ mem[q].installed
         /\ Len(mem[q].error_log) = 1
    /\ ~cfg_file.val.installed
    /\ cfg_file.val.error_log = <<>>

----------------------------------------------------------------------------
(* Properties of the repository stage (Spec) *)

\* C25: the update path (git pull) of clone_repository is taken only when
\* xtts-webui/ held the application before the run started; a run that starts
\* without xtts-webui/ clones.
C25_PullOnlyOnApplication ==
    [][(pc = "clone" /\ pc' = "pip_upgrade" /\ UpdatePath(xtts_dir))
          => xtts_dir = "app"]_vars

----------------------------------------------------------------------------
(* Properties of the recorded flags (Spec) *)

\* C26: after a run that installed the project dependencies from the
\* requirements manifest and exited with code 0, the state file has
\* installed = true.
C26_InstalledAfterManifest ==
    (pc = "done" /\ exit_code = <<0>> /\ "requirements_installed" \in trace)
        => (cfg_file.kind = "map" /\ cfg_file.val.installed)

\* C27: whenever a run sets models_downloaded to true (download_resources
\* returns True), xtts-webui/model/config.json exists at that moment.
C27_DownloadedImpliesConfig ==
    [][(dr_ret # "True" /\ dr_ret' = "True")
          => (config_state'.models_downloaded /\ model_dir' = "config")]_vars

Flags == {"installed", "models_downloaded", "patched"}

\* The state file records flag k as true.
FileFlag(f, k) == f.kind = "map" /\ k \in f.keys /\ f.val[k] = TRUE

\* C28: no step of a run turns installed, models_downloaded or patched from
\* true to false, in memory or in the state file; and a run that started from
\* a state file with models_downloaded true and without --force-download does
\* not enter the download stage, whatever the model directory holds.
C28_FlagsNeverReset ==
    [][/\ pc \notin {"idle", "done"}
            => \A k \in Flags : config_state[k] => config_state'[k]
       /\ \A k \in Flags : FileFlag(cfg_file, k) => FileFlag(cfg_file', k)
       /\ (pc = "decide" /\ FileFlag(start_file, "models_downloaded") /\ ~args.force)
            => pc' # "download_resources"]_vars

\* A run without --skip-download and without --force-download ended with code
\* 0 over a recorded models_downloaded although the model directory holds no
\* model file; the download stage was not entered.
C28_Witness ==
    /\ pc = "done"
    /\ exit_code = <<0>>
    /\ FileFlag(start_file, "models_downloaded")
    /\ ~args.force
    /\ ~args.skip
    /\ model_dir \in {"absent", "empty"}
    /\ "download_resources" \notin trace
    /\ FileFlag(cfg_file, "models_downloaded")

IsPrefix(a, b) == Len(a) <= Len(b) /\ SubSeq(b, 1, Len(a)) = a

\* The error_log a run holds after load_config_state.
LoadedLog == LoadConfigState(DefaultState, start_file).state.error_log

\* C29: within a run the error_log only grows at its end, and the error_log a
\* run writes to the state file has the log it loaded as a prefix.
C29_LogAppendOnly ==
    [][/\ pc \notin {"idle", "done"}
            => IsPrefix(config_state.error_log, config_state'.error_log)
       /\ (pc \notin {"idle", "done"} /\ cfg_file' # cfg_file)
            => /\ cfg_file'.kind = "map"
               /\ IsPrefix(LoadedLog, cfg_file'.val.error_log)]_vars

\* A second run loaded a non-empty log, appended to it and saved it.
C29_Witness ==
    /\ runs = 2
    /\ pc = "done"
    /\ LoadedLog # <<>>
    /\ cfg_file.kind = "map"
    /\ Len(cfg_file.val.error_log) > Len(LoadedLog)
    /\ IsPrefix(LoadedLog, cfg_file.val.error_log)

----------------------------------------------------------------------------
(* Properties of the patched flag (SpecPatch) *)

\* C30: whenever apply_compatibility_patch returns normally, patched is true,
\* whatever became of the shim, the installed source file and the dynamic
\* patch.
C30_PatchedOnReturn == patch_ret = "returned" => config_state.patched

\* The call returned although the shim could not be written, no installed
\* source file was found and the dynamic patch raised; patched is true.
C30_Witness ==
    /\ patch_ret = "returned"
    /\ patch_env.shim = "fail"
    /\ FirstSite(sites) = 0
    /\ patch_env.dyn = "import_error"
    /\ shim = "absent"
    /\ ~tf_has_lw
    /\ config_state.patched

----------------------------------------------------------------------------
(* Properties of the end of the launcher (SpecLauncher) *)

\* C31: once the child was spawned and its output has ended, the launcher
\* ends with status 0 whether the child's code was zero or not; a non-zero
\* code only selects the logged message.
C31_ChildCodeNotPropagated ==
    l_pc \in {"ChildExitedClean", "ChildExitedError"} =>
        /\ l_exit = <<0>>
        /\ spawn_count = 1
        /\ child = "exited"
        /\ (l_pc = "ChildExitedError") = (child_rc # 0)

\* The child ended with code 1 and the launcher with status 0.
C31_Witness ==
    /\ l_pc = "ChildExitedError"
    /\ child_rc = 1
    /\ l_exit = <<0>>
    /\ h_pc = "none"

----------------------------------------------------------------------------
(* Properties of download_resources (Spec) *)

\* C32: the voice samples are optional.  After the model archive was
\* downloaded and extracted with config.json, download_resources returns True
\* and sets models_downloaded whatever became of the voices; when the model
\* download or extraction fails or config.json is missing, it returns False,
\* leaves models_downloaded as it was and never asks for the voices.
C32_VoicesOptional ==
    [][/\ (pc = "dl_voices" /\ pc' = "patch")
            => /\ dr_ret' = "True"
               /\ config_state'.models_downloaded
               /\ model_dir = "config"
       /\ (pc = "dl_model" /\ pc' = "dl_voices")
            => /\ dl_ret = "True"
               /\ model_dir' = "config"
       /\ (pc = "dl_model" /\ pc' = "patch")
            => /\ dr_ret' = "False"
               /\ config_state'.models_downloaded = config_state.models_downloaded
               /\ dl_calls' = <<"model">>
               /\ (dl_ret # "True" \/ model_dir' # "config")]_vars

\* The voices could not be downloaded, and download_resources returned True
\* with models_downloaded set.
C32_Witness ==
    /\ pc = "patch"
    /\ dl_calls = <<"model", "voices">>
    /\ dl_ret # "True"
    /\ dr_ret = "True"
    /\ config_state.models_downloaded
    /\ ~FileFlag(start_file, "models_downloaded")

\* C33: --force-download takes precedence.  With it download_resources is
\* invoked whatever --skip-download and models_downloaded say; without it the
\* stage is skipped exactly when --skip-download is given or models_downloaded
\* is true.
C33_ForceTakesPrecedence ==
    [][(pc = "decide" /\ pc' \in {"download_resources", "patch"})
          => /\ args.force => pc' = "download_resources"
             /\ ~args.force =>
                  ((pc' = "patch") = (args.skip \/ config_state.models_downloaded))]_vars

\* Both flags were given over a recorded models_downloaded, and
\* download_resources ran.
C33_Witness ==
    /\ args.force
    /\ args.skip
    /\ FileFlag(start_file, "models_downloaded")
    /\ "download_resources" \in trace

----------------------------------------------------------------------------
(* Properties of the script selection (SpecLauncher) *)

CandidateAt(i, files) ==
    /\ ScriptCandidates[i] \in files
    /\ \A j \in 1..(i - 1) : ScriptCandidates[j] \notin files

\* C34: the spawned script is app.py when the directory holds it, else the
\* first candidate of the ordered list that the directory holds, else a .py
\* file of the directory; it is always a file of the directory.  A directory
\* without a Python file ends the launcher with status 1 and no child.
C34_ScriptPriority ==
    [][/\ l_script' # <<>> =>
            LET f == l_script'[1]
            IN /\ f \in l_files'
               /\ IsPython(f)
               /\ "app.py" \in l_files' => f = "app.py"
               /\ \A i \in 1..Len(ScriptCandidates) :
                     CandidateAt(i, l_files') => f = ScriptCandidates[i]
       /\ spawn_count' = 1 => l_script' # <<>>
       /\ (\A f \in l_files' : ~IsPython(f)) =>
            /\ l_script' = <<>>
            /\ spawn_count' = 0
            /\ child' = "none"
            /\ (l_pc = "ModelVerified" /\ l_pc' \notin {"ModelVerified", "Interrupted"})
                 => (l_pc' = "Failed" /\ l_exit' = <<1>>)]_vars

\* Without app.py, the directory held two candidates and another Python
\* file; the earlier candidate was spawned.
C34_Witness ==
    /\ l_files = {"webui.py", "xtts_demo.py", "tool.py", "README.md"}
    /\ l_script = <<"webui.py">>
    /\ spawn_count = 1
    /\ child = "running"

====
